---------------------------- MODULE Spec2Model ----------------------------
(***************************************************************************)
(* A model of the vector-commit crate's KZG scheme (kzg/mod.rs), of its    *)
(* precomputed Lagrange tables (precompute.rs) and of the generic          *)
(* VectorCommitment contract (lib.rs).                                     *)
(*                                                                         *)
(* The scalar field is the prime field of order P.  The groups G1 and G2   *)
(* have prime order P as well, and an element [a]G is represented by its   *)
(* scalar a; the pairing e([a]G1, [b]G2) = gT^(a*b) is represented by the  *)
(* product a*b.  Every group operation of the code (addition, scalar       *)
(* multiplication, equality, pairing equality) is exact in this            *)
(* representation.                                                         *)
(*                                                                         *)
(* A call of the library ends in one of three ways: it returns Ok(v), it   *)
(* returns Err(e), or it panics (an unwrap of None, an index out of        *)
(* bounds, a division by zero).  The three are kept apart.                 *)
(***************************************************************************)
EXTENDS Integers, Sequences, FiniteSets, TLC

\* The order of the scalar field F (kzg/mod.rs:249).  The tests use BN254's
\* scalar field; the model uses a small prime field with a subgroup of order 8.
P == 41

\* setup is asked for 1..MaxItems items, and for the two failing sizes below.
MaxItems == 5
\* The data vector has at most MaxData entries, each in 0..MaxVal.
MaxData == 4
MaxVal == 1
\* The largest number of points the point generator hands out.
GenMax == 9

F == 0..(P - 1)

-----------------------------------------------------------------------------
\* Results of a call.
Ok(v) == [tag |-> "Ok", val |-> v]
Err(e) == [tag |-> "Err", err |-> e]
Panic == [tag |-> "Panic"]
NoResult == [tag |-> "NoResult"]

-----------------------------------------------------------------------------
\* Field arithmetic (ark_ff), on canonical representatives 0..P-1.
FAdd(a, b) == (a + b) % P
FSub(a, b) == (a - b + P) % P
FMul(a, b) == (a * b) % P
FNeg(a) == (P - a) % P

RECURSIVE FPow(_, _)
FPow(a, e) == IF e = 0 THEN 1 ELSE FMul(a, FPow(a, e - 1))

\* F::from(n as u64)
FromU64(n) == n % P

\* Field::inverse of a nonzero element; inverse() of zero is None.
InverseTable == [x \in 1..(P - 1) |-> CHOOSE y \in 1..(P - 1) : FMul(x, y) = 1]
FInverse(a) == InverseTable[a]

\* a / b for b # 0.  The code's a / b with b = 0 panics; every caller below
\* tests the divisor first and ends in Panic.
FDiv(a, b) == FMul(a, FInverse(b))

\* The sum of a sequence of field (or group) elements.
RECURSIVE SumSeq(_, _)
SumSeq(s, n) == IF n = 0 THEN 0 ELSE FAdd(SumSeq(s, n - 1), s[n])
Sum(s) == SumSeq(s, Len(s))

-----------------------------------------------------------------------------
\* Evaluation domains (ark_poly's radix-2 domain behind GeneralEvaluationDomain).

RECURSIVE TwoAdicityOf(_)
TwoAdicityOf(n) == IF n % 2 = 0 THEN 1 + TwoAdicityOf(n \div 2) ELSE 0
\* F::TWO_ADICITY: the largest k with 2^k dividing P - 1.
TwoAdicity == TwoAdicityOf(P - 1)

RECURSIVE Pow2(_)
Pow2(k) == IF k = 0 THEN 1 ELSE 2 * Pow2(k - 1)

RECURSIVE NextPowerOfTwoFrom(_, _)
NextPowerOfTwoFrom(n, s) == IF s >= n THEN s ELSE NextPowerOfTwoFrom(n, 2 * s)
\* usize::next_power_of_two
NextPowerOfTwo(n) == NextPowerOfTwoFrom(n, 1)

RECURSIVE OrderFrom(_, _, _)
OrderFrom(x, acc, k) == IF acc = 1 THEN k ELSE OrderFrom(x, FMul(acc, x), k + 1)
\* The multiplicative order of a nonzero x.
Order(x) == OrderFrom(x, x, 1)

\* F::TWO_ADIC_ROOT_OF_UNITY: an element of order 2^TwoAdicity.
TwoAdicRoot == CHOOSE x \in 1..(P - 1) : Order(x) = Pow2(TwoAdicity)

\* D::new(num_coeffs): the domain of size next_power_of_two(num_coeffs), or None
\* when the field has no subgroup of that size.
DomainNew(num_coeffs) ==
    LET size == NextPowerOfTwo(num_coeffs)
    IN  IF size > Pow2(TwoAdicity)
        THEN [tag |-> "None"]
        ELSE [tag |-> "Some", size |-> size,
              group_gen |-> FPow(TwoAdicRoot, Pow2(TwoAdicity) \div size)]

\* domain.element(i) = group_gen^i
Element(dom, i) == FPow(dom.group_gen, i % dom.size)

\* Vec::resize(n, zero): truncates or pads with zero.
Resize(v, n) == [i \in 1..n |-> IF i <= Len(v) THEN v[i] ELSE 0]

\* domain.fft(coeffs): coeffs resized to the domain's size, then
\* out[j] = sum_i coeffs[i] * w^(i*j).  The scalars act on field elements and
\* on group elements alike.
Fft(dom, coeffs) ==
    LET n == dom.size
        x == Resize(coeffs, n)
    IN  [j \in 1..n |->
            Sum([i \in 1..n |-> FMul(x[i], Element(dom, (i - 1) * (j - 1)))])]

\* domain.ifft(evals): evals resized to the domain's size, then
\* out[j] = (1/n) * sum_i evals[i] * w^(-i*j).
Ifft(dom, evals) ==
    LET n == dom.size
        x == Resize(evals, n)
        ninv == FInverse(FromU64(n))
    IN  [j \in 1..n |->
            FMul(ninv,
                 Sum([i \in 1..n |->
                        FMul(x[i], Element(dom, n - (((i - 1) * (j - 1)) % n)))]))]

-----------------------------------------------------------------------------
\* utils.rs

\* to_usize(&F): the low 64 bits of the canonical representative.  Every
\* element of the model's field is below 2^64.
to_usize(x) == x

\* inner_product(a, b) = sum over b's indices i of a[i] * b[i].  It walks b and
\* indexes a, so it panics when b is longer than a, and a longer a is cut short.
inner_product(a, b) ==
    IF Len(b) > Len(a)
    THEN Panic
    ELSE Ok(Sum([i \in 1..Len(b) |-> FMul(a[i], b[i])]))

\* elementwise_mul(a, b)
elementwise_mul(a, b) == [i \in 1..Len(a) |-> FMul(a[i], b[i])]

-----------------------------------------------------------------------------
\* precompute.rs: PrecomputedLagrange

\* compute_vanishing_evaluations without the inverse of unity^i:
\* evals[i] = size * unity^i.
compute_vanishing_evaluations_no_inverse(size, unity) ==
    LET evals == [i \in 1..size |-> FMul(FromU64(size), FPow(unity, i - 1))]
    IN  [evals |-> evals,
         inv |-> [i \in 1..size |-> FInverse(evals[i])]]

\* compute_vanishing_evaluations(size, unity): evals[i] = size * (unity^i)^-1
\* and, after batch_inversion, inv[i] = evals[i]^-1.
compute_vanishing_evaluations(size, unity) ==
    LET evals == [i \in 1..size |->
                    FMul(FromU64(size), FInverse(FPow(unity, i - 1)))]
    IN  [evals |-> evals,
         inv |-> [i \in 1..size |-> FInverse(evals[i])]]

\* PrecomputedLagrange::new(size): unwraps the domain.
PrecomputedLagrangeNew(size) ==
    LET domain == DomainNew(size)
    IN  IF domain.tag = "None"
        THEN Panic
        ELSE LET t == compute_vanishing_evaluations(size, domain.group_gen)
             IN  Ok([size |-> size,
                     domain |-> domain,
                     vanishing_evaluations |-> t.evals,
                     vanishing_evaluations_inv |-> t.inv])

\* vanishing_at(point) and vanishing_inverse_at(point) index the tables: out of
\* bounds for point >= size.
vanishing_at(pre, point) == pre.vanishing_evaluations[point + 1]
vanishing_inverse_at(pre, point) == pre.vanishing_evaluations_inv[point + 1]

\* Whether compute_barycentric_coefficients(point) returns at its first branch.
BarycentricFastPath(pre, point) == point < FromU64(pre.size)

\* The divisors point - unity^i of the general formula.
BarycentricDivisors(pre, point) ==
    [i \in 1..pre.size |-> FSub(point, FPow(pre.domain.group_gen, i - 1))]

\* compute_barycentric_coefficients with the bound of its fast path one short:
\* the last index of the table falls through to the general formula.
compute_barycentric_coefficients_short(pre, point) ==
    IF point < FromU64(pre.size - 1)
    THEN Ok([i \in 1..pre.size |-> IF i = to_usize(point) + 1 THEN 1 ELSE 0])
    ELSE LET unity == pre.domain.group_gen
             divisors == BarycentricDivisors(pre, point)
             t == FDiv(FSub(FPow(point, pre.size), 1), FromU64(pre.size))
         IN  IF \E i \in 1..pre.size : divisors[i] = 0
             THEN Panic
             ELSE Ok([i \in 1..pre.size |->
                        FDiv(FMul(t, FPow(unity, i - 1)), divisors[i])])

\* compute_barycentric_coefficients(point)
compute_barycentric_coefficients(pre, point) ==
    IF BarycentricFastPath(pre, point)
    THEN Ok([i \in 1..pre.size |-> IF i = to_usize(point) + 1 THEN 1 ELSE 0])
    ELSE LET unity == pre.domain.group_gen
             divisors == BarycentricDivisors(pre, point)
             t == FDiv(FSub(FPow(point, pre.size), 1), FromU64(pre.size))
         IN  IF \E i \in 1..pre.size : divisors[i] = 0
             THEN Panic
             ELSE Ok([i \in 1..pre.size |->
                        FDiv(FMul(t, FPow(unity, i - 1)), divisors[i])])

-----------------------------------------------------------------------------
\* lagrange_basis.rs: LagrangeBasis, a vector of evaluations over the domain of
\* the key it is used with (from_vec_and_domain).  A position past the end of
\* the vector holds zero.

\* f(w^i) for a domain position i.
ValueAt(values, i) == IF i < Len(values) THEN values[i + 1] ELSE 0

\* evaluate(table, point): the stored value when point indexes one of the first
\* len positions, else the inner product of the barycentric coefficients with
\* the stored values.
evaluate(values, pre, point) ==
    IF point < FromU64(Len(values))
    THEN Ok(values[to_usize(point) + 1])
    ELSE LET b == compute_barycentric_coefficients(pre, point)
         IN  IF b.tag = "Panic" THEN Panic ELSE inner_product(b.val, values)

\* divide_by_vanishing(table, index): the evaluations of
\* (f(X) - f(w^index)) / (X - w^index).  At i # index,
\* q[i] = (f_i - y) / (w^i - w^index); at index the quotient is read off the
\* vanishing tables: q[index] = - sum_{i # index} q[i] * A'(w^index) / A'(w^i).
\* An index outside the tables is out of bounds.
divide_by_vanishing(values, pre, index) ==
    IF index >= pre.size
    THEN Panic
    ELSE LET n == pre.size
             y == ValueAt(values, index)
             off == [i \in 1..n |->
                       IF i = index + 1
                       THEN 0
                       ELSE FDiv(FSub(ValueAt(values, i - 1), y),
                                 FSub(Element(pre.domain, i - 1),
                                      Element(pre.domain, index)))]
             at == FNeg(Sum([i \in 1..n |->
                       FMul(off[i],
                            FMul(vanishing_at(pre, index),
                                 vanishing_inverse_at(pre, i - 1)))]))
         IN  Ok([i \in 1..n |-> IF i = index + 1 THEN at ELSE off[i]])

\* divive_by_vanishing_outside_domain(table, point): q[i] = (f_i - y) / (w^i - point)
\* with y = f(point); a point of the domain divides by zero.
divive_by_vanishing_outside_domain(values, pre, point) ==
    LET n == pre.size
        y == evaluate(values, pre, point)
    IN  IF y.tag = "Panic" \/ \E i \in 0..(n - 1) : Element(pre.domain, i) = point
        THEN Panic
        ELSE Ok([i \in 1..n |->
                   FDiv(FSub(ValueAt(values, i - 1), y.val),
                        FSub(Element(pre.domain, i - 1), point))])

\* interpolate(): the coefficients ifft(values) as a DensePolynomial, which drops
\* the trailing zero coefficients.
RECURSIVE StripTrailingZeros(_)
StripTrailingZeros(c) ==
    IF Len(c) > 0 /\ c[Len(c)] = 0
    THEN StripTrailingZeros(SubSeq(c, 1, Len(c) - 1))
    ELSE c
interpolate(values, pre) == StripTrailingZeros(Ifft(pre.domain, values))

\* DensePolynomial::degree: 0 for the zero polynomial.
PolyDegree(coeffs) == IF Len(coeffs) = 0 THEN 0 ELSE Len(coeffs) - 1

-----------------------------------------------------------------------------
\* kzg/kzg_point_generator.rs: KZGRandomPointGenerator, a generator
\* [secret |-> s, max |-> m] holding the trapdoor.

\* gen(num): the points [s^i]G1 for i < num, or OutOfBounds past the bound.
GenPoints(gen, num) ==
    IF num > gen.max
    THEN Err("OutOfBounds")
    ELSE Ok([i \in 1..num |-> FPow(gen.secret, i - 1)])

-----------------------------------------------------------------------------
\* kzg/mod.rs

\* KZGKey::from_lagrange_vec(lagrange_g1, g2, unity)
from_lagrange_vec(lagrange_g1, g2) ==
    LET size == Len(lagrange_g1)
        pre == PrecomputedLagrangeNew(size)
    IN  IF pre.tag = "Panic"
        THEN Panic
        ELSE Ok([size |-> size,
                 lagrange_commitments |-> lagrange_g1,
                 g2 |-> g2,
                 precompute |-> pre.val])

\* KZGKey::max_size
max_size(key) == key.size

\* KZG::setup(max_items, gen)
setup(max_items, gen) ==
    LET g1_points == GenPoints(gen, max_items)
        domain == DomainNew(max_items)
    IN  IF g1_points.tag = "Err"
        THEN g1_points
        ELSE IF domain.tag = "None"
        THEN Panic
        ELSE from_lagrange_vec(Ifft(domain, g1_points.val), FMul(1, gen.secret))

\* KZG::commit(key, data)
commit(key, data) == inner_product(key.lagrange_commitments, data)

\* Whether prove_point divides inside the domain (at index to_usize(point)).
ProveInDomain(key, point) == point <= FromU64(max_size(key))

\* KZG::prove_point(key, commitment, point, data, transcript)
prove_point(key, commitment, point, data) ==
    LET evaluation == evaluate(data, key.precompute, point)
        q == IF ProveInDomain(key, point)
             THEN divide_by_vanishing(data, key.precompute, to_usize(point))
             ELSE divive_by_vanishing_outside_domain(data, key.precompute, point)
    IN  IF evaluation.tag = "Panic" \/ q.tag = "Panic"
        THEN Panic
        ELSE LET c == inner_product(key.lagrange_commitments, q.val)
             IN  IF c.tag = "Panic"
                 THEN Panic
                 ELSE Ok([proof |-> c.val, y |-> evaluation.val])

\* Whether verify_point reads the point as a domain index.
VerifyInDomain(key, point) == point < FromU64(max_size(key))

\* The pairing e([a]G1, [b]G2) as the exponent of the target group's generator.
Pairing(a, b) == FMul(a, b)

\* verify_point reporting a failed pairing check as an error instead of false.
verify_point_err(key, commitment, point, proof) ==
    LET p == IF VerifyInDomain(key, point)
             THEN FPow(key.precompute.domain.group_gen, to_usize(point))
             ELSE point
        pairing1 == Pairing(proof.proof, FSub(key.g2, FMul(1, p)))
        pairing2 == Pairing(FSub(commitment, FMul(1, proof.y)), 1)
    IN  IF pairing1 = pairing2 THEN Ok(TRUE) ELSE Err("DefaultError")

\* KZG::verify_point(key, commitment, point, proof, transcript)
verify_point(key, commitment, point, proof) ==
    LET p == IF VerifyInDomain(key, point)
             THEN FPow(key.precompute.domain.group_gen, to_usize(point))
             ELSE point
        pairing1 == Pairing(proof.proof, FSub(key.g2, FMul(1, p)))
        pairing2 == Pairing(FSub(commitment, FMul(1, proof.y)), 1)
    IN  Ok(pairing1 = pairing2)

\* VectorCommitment::prove and VectorCommitment::verify (lib.rs)
prove(key, commitment, index, data) ==
    prove_point(key, commitment, FromU64(index), data)
verify(key, commitment, index, proof) ==
    verify_point(key, commitment, FromU64(index), proof)

\* data[i] (LagrangeBasis as Index<usize>).  Past the end of the vector the
\* index either panics or reads the zero padding: oob names which.
IndexData(data, i, oob) ==
    IF i < Len(data) THEN Ok(data[i + 1])
    ELSE IF oob = "panic" THEN Panic ELSE Ok(0)

\* The vector c_hat of prove_all_points.
CHat(coeffs, degree) ==
    <<coeffs[degree + 1]>> \o [i \in 1..(degree + 1) |-> 0]
        \o SubSeq(coeffs, 1, degree)

\* The vector s_hat of prove_all_points.
SHat(g1, degree, domain) ==
    [i \in 1..degree |-> g1[degree + 1 - i]]
        \o [i \in 1..(domain.size - degree) |-> 0]

\* The vectors prove_all_points builds before it transforms them: the degree of
\* the interpolated polynomial, the size of the domain of degree * 2, c_hat and
\* s_hat.  There are none when the domain does not exist or coeffs[degree] is
\* out of bounds.
AllPointsVectors(key, data) ==
    LET coeffs == interpolate(data, key.precompute)
        degree == PolyDegree(coeffs)
        domain == DomainNew(degree * 2)
    IN  IF domain.tag = "None" \/ Len(coeffs) = 0
        THEN NoResult
        ELSE Ok([degree |-> degree,
                 domain_size |-> domain.size,
                 c_hat |-> CHat(coeffs, degree),
                 s_hat |-> SHat(Ifft(key.precompute.domain,
                                     key.lagrange_commitments),
                                degree, domain)])

\* KZG::prove_all_points(key, data)
prove_all_points(key, data, oob) ==
    LET coeffs == interpolate(data, key.precompute)
        degree == PolyDegree(coeffs)
        domain == DomainNew(degree * 2)
    IN  IF domain.tag = "None"
        THEN Err("InvalidDomain")
        ELSE IF Len(coeffs) = 0
        THEN Panic
        ELSE LET c_hat == CHat(coeffs, degree)
                 g1 == Ifft(key.precompute.domain, key.lagrange_commitments)
                 s_hat == SHat(g1, degree, domain)
                 y == Fft(domain, c_hat)
                 v == Fft(domain, s_hat)
                 u == elementwise_mul(v, y)
                 h_hat == Ifft(domain, u)
             IN  IF \E i \in 0..(Len(h_hat) - 1) : IndexData(data, i, oob).tag = "Panic"
                 THEN Panic
                 ELSE Ok([i \in 1..Len(h_hat) |->
                            [proof |-> h_hat[i],
                             y |-> IndexData(data, i - 1, oob).val]])

-----------------------------------------------------------------------------
\* The state: one run of the library, from the construction of the parameters
\* to the calls made with them.

VARIABLES
    pc,          \* the last call made
    max_items,   \* the size setup was asked for
    gen,         \* the point generator given to setup
    key,         \* setup's result
    data,        \* the data vector
    commitment,  \* commit's result
    point,       \* the point of the last prove_point, verify_point or
                 \* compute_barycentric_coefficients
    proof,       \* prove_point's result
    claimed,     \* the proof handed to verify_point
    verdict,     \* verify_point's result
    all_proofs,  \* prove_all_points' result
    hats,        \* the vectors prove_all_points transforms
    coeffs,      \* compute_barycentric_coefficients' result
    evaluation   \* data.evaluate's result

vars == <<pc, max_items, gen, key, data, commitment, point, proof, claimed,
          verdict, all_proofs, hats, coeffs, evaluation>>

\* The trapdoors of the generators: one outside every domain, one inside.
Secrets == {2, 9}

\* The sizes setup is asked for: the small ones, one past the largest domain of
\* the field, and one past the generator's bound.
SetupSizes == (1..MaxItems) \cup {Pow2(TwoAdicity) + 1, GenMax + 1}

\* The data vectors.
DataVectors == UNION {[1..l -> 0..MaxVal] : l \in 0..MaxData}

\* A proof that is no honest prover's.
ZeroProof == [proof |-> 0, y |-> 0]

Init ==
    /\ pc = "start"
    /\ max_items = 0
    /\ gen = [secret |-> 0, max |-> GenMax]
    /\ key = NoResult
    /\ data = <<>>
    /\ commitment = NoResult
    /\ point = 0
    /\ proof = NoResult
    /\ claimed = ZeroProof
    /\ verdict = NoResult
    /\ all_proofs = NoResult
    /\ hats = NoResult
    /\ coeffs = NoResult
    /\ evaluation = NoResult

\* setup(n, generator with trapdoor s)
Setup(n, s) ==
    /\ pc = "start"
    /\ pc' = "setup"
    /\ max_items' = n
    /\ gen' = [secret |-> s, max |-> GenMax]
    /\ key' = setup(n, gen')
    /\ UNCHANGED <<data, commitment, point, proof, claimed, verdict,
                   all_proofs, hats, coeffs, evaluation>>

\* commit(key, d)
Commit(d) ==
    /\ pc = "setup"
    /\ key.tag = "Ok"
    /\ pc' = "commit"
    /\ data' = d
    /\ commitment' = commit(key.val, d)
    /\ UNCHANGED <<max_items, gen, key, point, proof, claimed, verdict,
                   all_proofs, hats, coeffs, evaluation>>

\* prove_point(key, commitment, z, data)
ProvePoint(z) ==
    /\ pc = "commit"
    /\ commitment.tag = "Ok"
    /\ pc' = "prove"
    /\ point' = z
    /\ proof' = prove_point(key.val, commitment.val, z, data)
    /\ UNCHANGED <<max_items, gen, key, data, commitment, claimed, verdict,
                   all_proofs, hats, coeffs, evaluation>>

\* verify_point(key, commitment, point, p) for the prover's proof, or for the
\* zero proof when the prover gave none, with dq added to its quotient
\* commitment and dy to its evaluation.
VerifyPoint(dq, dy) ==
    /\ pc = "prove"
    /\ pc' = "verify"
    /\ LET base == IF proof.tag = "Ok" THEN proof.val ELSE ZeroProof
       IN  claimed' = [proof |-> FAdd(base.proof, dq), y |-> FAdd(base.y, dy)]
    /\ verdict' = verify_point(key.val, commitment.val, point, claimed')
    /\ UNCHANGED <<max_items, gen, key, data, commitment, point, proof,
                   all_proofs, hats, coeffs, evaluation>>

\* prove_all_points(key, data)
ProveAllPoints(oob) ==
    /\ pc = "commit"
    /\ commitment.tag = "Ok"
    /\ pc' = "prove_all"
    /\ all_proofs' = prove_all_points(key.val, data, oob)
    /\ hats' = AllPointsVectors(key.val, data)
    /\ UNCHANGED <<max_items, gen, key, data, commitment, point, proof,
                   claimed, verdict, coeffs, evaluation>>

\* key.precompute().compute_barycentric_coefficients(z)
Barycentric(z) ==
    /\ pc = "setup"
    /\ key.tag = "Ok"
    /\ pc' = "barycentric"
    /\ point' = z
    /\ coeffs' = compute_barycentric_coefficients(key.val.precompute, z)
    /\ UNCHANGED <<max_items, gen, key, data, commitment, proof, claimed,
                   verdict, all_proofs, hats, evaluation>>

\* data.evaluate(key.precompute(), z), the first step of prove_point, with the
\* barycentric coefficients of z it is computed from.
Evaluate(z) ==
    /\ pc = "commit"
    /\ commitment.tag = "Ok"
    /\ pc' = "evaluate"
    /\ point' = z
    /\ coeffs' = compute_barycentric_coefficients(key.val.precompute, z)
    /\ evaluation' = evaluate(data, key.val.precompute, z)
    /\ UNCHANGED <<max_items, gen, key, data, commitment, proof, claimed,
                   verdict, all_proofs, hats>>

Next ==
    \/ \E n \in SetupSizes, s \in Secrets : Setup(n, s)
    \/ \E d \in DataVectors : Commit(d)
    \/ \E z \in F : ProvePoint(z)
    \/ \E dq \in 0..1, dy \in 0..1 : VerifyPoint(dq, dy)
    \/ \E oob \in {"panic", "zero"} : ProveAllPoints(oob)
    \/ \E z \in F : Barycentric(z)
    \/ \E z \in F : Evaluate(z)

Spec == Init /\ [][Next]_vars

-----------------------------------------------------------------------------
\* Notions the properties below share.

\* The key setup returned.
K == key.val

\* The elements w^0 .. w^(size-1) of the key's domain.
DomainElements == {Element(K.precompute.domain, i) : i \in 0..(K.size - 1)}

\* verify_point was handed the prover's own proof, unchanged.
HonestProof == proof.tag = "Ok" /\ claimed = proof.val

\* verify_point was handed the prover's proof with its evaluation raised by one.
RaisedEvaluation ==
    /\ proof.tag = "Ok"
    /\ claimed = [proof |-> proof.val.proof, y |-> FAdd(proof.val.y, 1)]

\* The point as verify_point reads it.
VerifierPoint ==
    IF point < K.size THEN Element(K.precompute.domain, point) ELSE point

\* The opening equation proof * (s - p) = commitment - y in the exponent, s the
\* trapdoor of the generator the key was built from.
OpeningEquation ==
    FMul(claimed.proof, FSub(gen.secret, VerifierPoint))
        = FSub(commitment.val, claimed.y)

\* setup was asked for a size that is the size of a domain.
PowerOfTwoKey == NextPowerOfTwo(max_items) = max_items

-----------------------------------------------------------------------------
\* C1. Completeness: for every key built by setup, every data vector of length
\* <= max_size and every index i < len(data), prove returns a proof and verify
\* accepts it.
C1_Completeness ==
    /\ (pc = "prove" /\ Len(data) <= max_size(K) /\ point < Len(data))
          => proof.tag = "Ok"
    /\ (pc = "verify" /\ Len(data) <= max_size(K) /\ point < Len(data)
          /\ HonestProof)
          => (verdict.tag = "Ok" /\ verdict.val = TRUE)

\* The same for the keys of a power-of-two size, which setup builds from as many
\* generator points as the domain has elements.
CompletenessPowerOfTwo == PowerOfTwoKey => C1_Completeness

\* C2. Zero padding: for every data vector shorter than max_size and every index
\* z with len(data) <= z < max_size, the proof at z carries the evaluation zero
\* and verify accepts it.
C2_ZeroPadding ==
    /\ (pc = "prove" /\ Len(data) <= point /\ point < max_size(K))
          => (proof.tag = "Ok" /\ proof.val.y = 0)
    /\ (pc = "verify" /\ Len(data) <= point /\ point < max_size(K)
          /\ HonestProof)
          => (verdict.tag = "Ok" /\ verdict.val = TRUE)

ZeroPaddingPowerOfTwo == PowerOfTwoKey => C2_ZeroPadding

\* C3. Points are not bounded by max_size: for every index i >= max_size, prove
\* returns a proof and verify accepts it.  The indices that are elements of the
\* key's domain are left out: no u64 index is one in the field of the tests,
\* size 1 aside.
C3_OutsideMaxSize ==
    /\ (pc = "prove" /\ point >= max_size(K) /\ point \notin DomainElements)
          => proof.tag = "Ok"
    /\ (pc = "verify" /\ point >= max_size(K) /\ point \notin DomainElements
          /\ HonestProof)
          => (verdict.tag = "Ok" /\ verdict.val = TRUE)

\* Past max_size the prover gives a proof, which verify accepts under a
\* power-of-two key.
OutsidePastMaxSize ==
    /\ (pc = "prove" /\ point > max_size(K) /\ point \notin DomainElements)
          => proof.tag = "Ok"
    /\ (pc = "verify" /\ point > max_size(K) /\ point \notin DomainElements
          /\ HonestProof /\ PowerOfTwoKey)
          => (verdict.tag = "Ok" /\ verdict.val = TRUE)

\* C4. Soundness regression: the honest proof with its evaluation y replaced by
\* y + 1, the quotient commitment, the commitment and the point unchanged, is
\* rejected.
C4_RaisedEvaluationRejected ==
    (pc = "verify" /\ RaisedEvaluation)
        => (verdict.tag = "Ok" /\ verdict.val = FALSE)

RaisedEvaluationRejectedPowerOfTwo ==
    PowerOfTwoKey => C4_RaisedEvaluationRejected

\* C5. Amortized agreement: whenever prove_all_points returns, its entry i is
\* the proof of prove_point at i, for every i below the domain's size.
C5_AmortizedAgreement ==
    (pc = "prove_all" /\ all_proofs.tag = "Ok")
        => \A i \in 0..(K.size - 1) :
              /\ i < Len(all_proofs.val)
              /\ prove_point(K, commitment.val, FromU64(i), data)
                    = Ok(all_proofs.val[i + 1])

\* C6. verify_point never fails: for every point and every proof it returns a
\* boolean, and it returns false for a proof that does not satisfy the opening
\* equation.
C6_VerifyReturnsBoolean ==
    pc = "verify"
        => /\ verdict.tag = "Ok"
           /\ verdict.val \in BOOLEAN
           /\ (~OpeningEquation => verdict.val = FALSE)

\* An invalid proof at a point outside max_size has been rejected.
C6_Witness ==
    /\ pc = "verify"
    /\ point > max_size(K)
    /\ ~HonestProof
    /\ ~OpeningEquation
    /\ verdict = Ok(FALSE)

\* C7. commit fails for data longer than max_size: it returns an error, never a
\* commitment.
C7_CommitTooLongFails ==
    (pc = "commit" /\ Len(data) > max_size(K)) => commitment.tag = "Err"

\* C8. Configuration errors are values: a generator error is setup's error, and
\* a size with no domain makes setup return InvalidDomain.
C8_SetupErrorsAreValues ==
    pc = "setup"
        => /\ GenPoints(gen, max_items).tag = "Err"
                => key = GenPoints(gen, max_items)
           /\ (GenPoints(gen, max_items).tag = "Ok"
                 /\ DomainNew(max_items).tag = "None")
                => (key.tag = "Err" /\ key.err = "InvalidDomain")

\* A generator error is returned unchanged.
GeneratorErrorReturned ==
    (pc = "setup" /\ GenPoints(gen, max_items).tag = "Err")
        => key = GenPoints(gen, max_items)

\* C9. Barycentric exactness: for an integer i below the table's size,
\* compute_barycentric_coefficients(i) is the vector of the table's length that
\* is one at position i and zero elsewhere.
C9_BarycentricExact ==
    (pc = "barycentric" /\ point < K.precompute.size)
        => /\ coeffs.tag = "Ok"
           /\ Len(coeffs.val) = K.precompute.size
           /\ \A j \in 0..(K.precompute.size - 1) :
                 coeffs.val[j + 1] = (IF j = point THEN 1 ELSE 0)

\* The coefficients of the last index of a table of eight entries.
C9_Witness ==
    /\ pc = "barycentric"
    /\ K.precompute.size = 8
    /\ point = 7
    /\ coeffs.tag = "Ok"
    /\ coeffs.val[8] = 1

\* C10. compute_barycentric_coefficients never divides by zero: the fast path is
\* taken or every divisor point - w^i is nonzero.
C10_NoDivisionByZero ==
    pc = "barycentric"
        => \/ BarycentricFastPath(K.precompute, point)
           \/ \A i \in 1..K.precompute.size :
                 BarycentricDivisors(K.precompute, point)[i] # 0

-----------------------------------------------------------------------------
\* The polynomial of degree < n that takes the stored values (zero past their
\* end) at the n points of the key's domain, by its coefficients, and its value
\* at z, computed from the coefficients.
PolynomialOf(values) == Ifft(K.precompute.domain, values)
PolynomialAt(values, z) ==
    LET c == PolynomialOf(values)
    IN  Sum([i \in 1..Len(c) |-> FMul(c[i], FPow(z, i - 1))])

\* C11. Barycentric evaluation is correct: for every point z handled by the
\* general formula (z not an integer below n), the inner product of
\* compute_barycentric_coefficients(z) with the stored values is f(z).
C11_BarycentricEvaluation ==
    (pc = "evaluate" /\ ~BarycentricFastPath(K.precompute, point))
        => /\ coeffs.tag = "Ok"
           /\ evaluation.tag = "Ok"
           /\ evaluation = inner_product(coeffs.val, data)
           /\ evaluation.val = PolynomialAt(data, point)

\* The same away from the domain's own elements, where the general formula
\* divides by nonzero divisors only.
BarycentricEvaluationOffDomain ==
    (pc = "evaluate" /\ point \notin DomainElements)
        => C11_BarycentricEvaluation

\* The invariant of one table: n entries in each, entry i is n * w^(-i), is not
\* zero, and times its stored inverse is 1.
VanishingTableInvariant(pre) ==
    LET n == pre.size
    IN  /\ Len(pre.vanishing_evaluations) = n
        /\ Len(pre.vanishing_evaluations_inv) = n
        /\ \A i \in 0..(n - 1) :
              /\ FMul(vanishing_at(pre, i), Element(pre.domain, i)) = FromU64(n)
              /\ vanishing_at(pre, i) # 0
              /\ FMul(vanishing_at(pre, i), vanishing_inverse_at(pre, i)) = 1

\* C12. Vanishing-table invariant: for every table built for size n, both tables
\* have exactly n entries, and for every i < n vanishing_at(i) is n * w^(-i),
\* is nonzero, and vanishing_at(i) * vanishing_inverse_at(i) = 1.  Checked on
\* the table of the key (a power of two) and on the table built for max_items
\* itself (any size with a domain).
C12_VanishingTables ==
    key.tag = "Ok"
        => /\ VanishingTableInvariant(K.precompute)
           /\ PrecomputedLagrangeNew(max_items).tag = "Ok"
           /\ VanishingTableInvariant(PrecomputedLagrangeNew(max_items).val)

\* The tables of a key of the largest size the field supports have been built,
\* and the entries at 1 and at n - 1 differ as w^(-1) and w^(-(n-1)) = w do.
C12_Witness ==
    LET n == Pow2(TwoAdicity)
    IN  /\ pc = "setup"
        /\ key.tag = "Ok"
        /\ K.precompute.size = n
        /\ Len(K.precompute.vanishing_evaluations) = n
        /\ vanishing_at(K.precompute, n - 1)
              = FMul(FromU64(n), Element(K.precompute.domain, 1))
        /\ vanishing_at(K.precompute, 1) # vanishing_at(K.precompute, n - 1)

\* C13. In prove_all_points, with degree the degree of the data's interpolated
\* polynomial, c_hat and s_hat each have exactly 2*degree entries, equal to the
\* size of the domain they are transformed over.
C13_HatSizes ==
    (pc = "prove_all" /\ hats.tag = "Ok")
        => /\ Len(hats.val.c_hat) = hats.val.degree + hats.val.degree
           /\ Len(hats.val.s_hat) = hats.val.degree + hats.val.degree
           /\ Len(hats.val.c_hat) = hats.val.domain_size
           /\ Len(hats.val.s_hat) = hats.val.domain_size

\* What the code keeps instead: s_hat has the domain's size, c_hat two more
\* entries than 2*degree.
HatSizesOfTheCode ==
    (pc = "prove_all" /\ hats.tag = "Ok")
        => /\ Len(hats.val.s_hat) = hats.val.domain_size
           /\ hats.val.domain_size
                 = NextPowerOfTwo(hats.val.degree + hats.val.degree)
           /\ Len(hats.val.c_hat) > hats.val.degree + hats.val.degree

\* C14. Prover and verifier agree on how a point is interpreted: prove_point
\* takes its in-domain branch exactly when verify_point replaces the point by
\* w^point and exactly when compute_barycentric_coefficients takes its fast
\* path, and the index passed to divide_by_vanishing is below max_size.
C14_PointInterpretation ==
    pc = "prove"
        => /\ ProveInDomain(K, point) <=> VerifyInDomain(K, point)
           /\ ProveInDomain(K, point)
                 <=> BarycentricFastPath(K.precompute, point)
           /\ ProveInDomain(K, point) => to_usize(point) < max_size(K)

\* Verifier and barycentric fast path agree with each other, and with the
\* prover at every point other than max_size.
PointInterpretationBesidesMaxSize ==
    pc = "prove"
        => /\ VerifyInDomain(K, point)
                 <=> BarycentricFastPath(K.precompute, point)
           /\ point # FromU64(max_size(K))
                 => (ProveInDomain(K, point) <=> VerifyInDomain(K, point))
=============================================================================
